---- MODULE Spec2Model ----
(***************************************************************************)
(* Model of src/src/run.py: the experiment pipeline create_figs            *)
(* (run_experiments, the pickle result cache, write_results_to_csv, the    *)
(* ROC stage and the figure) and the pure function calc_macro_roc.         *)
(*                                                                         *)
(* Two specifications share the module's variables:                        *)
(*   Spec     the pipeline, over any sequence of create_figs invocations;  *)
(*   SpecRoc  calc_macro_roc applied to bounded lists of ROC curves.       *)
(*                                                                         *)
(* Real numbers are exact rationals <<n, d>> in lowest terms with d > 0,   *)
(* so the arithmetic of interp / trapz is modelled without rounding.       *)
(***************************************************************************)
EXTENDS Integers, Sequences, FiniteSets, TLC

\* ------------------------------------------------------------------------
\* Bounds of the model
\* ------------------------------------------------------------------------

\* FPR / TPR input values are the multiples of 1/GridDen in [0, 1].
GridDen == 2

\* Total number of ROC points over all the curves handed to calc_macro_roc.
MaxPoints == 6

\* Largest fold count (nfolds) of an invocation of create_figs.
MaxFolds == 2

\* Largest number of test samples of a fold.
MaxSamples == 2

\* ------------------------------------------------------------------------
\* Exact rational arithmetic
\* ------------------------------------------------------------------------

Abs(n) == IF n < 0 THEN -n ELSE n

RECURSIVE Gcd(_, _)
Gcd(a, b) == IF b = 0 THEN a ELSE Gcd(b, a % b)

\* The rational n/d (d # 0) in lowest terms with a positive denominator.
R(n, d) ==
    LET g == Gcd(Abs(n), Abs(d))
        s == IF d < 0 THEN -1 ELSE 1
    IN  <<(s * n) \div g, (s * d) \div g>>

Zero == R(0, 1)
One == R(1, 1)

RAdd(a, b) == R(a[1] * b[2] + b[1] * a[2], a[2] * b[2])
RSub(a, b) == R(a[1] * b[2] - b[1] * a[2], a[2] * b[2])
RMul(a, b) == R(a[1] * b[1], a[2] * b[2])
RDiv(a, b) == R(a[1] * b[2], a[2] * b[1])
RLt(a, b) == a[1] * b[2] < b[1] * a[2]
RLe(a, b) == a[1] * b[2] <= b[1] * a[2]
RInt(n) == R(n, 1)

\* ------------------------------------------------------------------------
\* Variables
\* ------------------------------------------------------------------------

VARIABLES
    \* --- calc_macro_roc (SpecRoc) ---
    fpr,            \* argument fpr: a list of FPR arrays, one per curve
    tpr,            \* argument tpr: a list of TPR arrays, one per curve
    rpc,            \* position in calc_macro_roc
    all_fpr,        \* local all_fpr
    mean_tpr,       \* local mean_tpr (the running sum)
    i,              \* loop variable i (1-based here)
    interps,        \* the arrays interp(all_fpr, fpr[i], tpr[i]) added so far
    ret,            \* the returned triple
    \* --- create_figs (Spec) ---
    pc,             \* position in create_figs
    force,          \* argument force
    isbigram,       \* argument isbigram
    islstm,         \* argument islstm
    nfolds,         \* argument nfolds
    order,          \* iteration order of the dict results in this process
    bigram_results, \* local of run_experiments
    lstm_results,   \* local of run_experiments
    results,        \* local results of create_figs
    artifact,       \* the file RESULT_FILE on disk
    csv,            \* the CSV files written by this invocation, by name
    openFiles,      \* the output files opened and not yet closed
    resultset,      \* write_results_to_csv: position in the dict (1-based)
    nfold,          \* write_results_to_csv: loop variable nfold (0-based)
    row,            \* write_results_to_csv: loop variable i (0-based)
    macro,          \* the models whose *_binary_fpr/tpr/auc locals are bound
    image,          \* results.png as written by this invocation
    err,            \* the exception that ended the invocation, "none" if none
    invoked,        \* the model runs called by this invocation, in order
    runnerInvoked,  \* run_experiments was called by this invocation
    artifactAtStart \* the artifact as it was when the invocation began

rocVars == <<fpr, tpr, rpc, all_fpr, mean_tpr, i, interps, ret>>

pipeVars == <<pc, force, isbigram, islstm, nfolds, order, bigram_results,
              lstm_results, results, artifact, csv, openFiles, resultset, nfold,
              row, macro, image, err, invoked, runnerInvoked, artifactAtStart>>

vars == <<rocVars, pipeVars>>

\* ------------------------------------------------------------------------
\* Library functions used by calc_macro_roc
\* ------------------------------------------------------------------------

\* itertools.chain(*fpr): the concatenation of the arrays.
RECURSIVE Chain(_)
Chain(ls) == IF ls = <<>> THEN <<>> ELSE Head(ls) \o Chain(Tail(ls))

\* Insert x into the ascending sequence s, after the entries equal to it.
RECURSIVE Insert(_, _)
Insert(x, s) ==
    IF s = <<>> THEN <<x>>
    ELSE IF RLt(x, Head(s)) THEN <<x>> \o s
    ELSE <<Head(s)>> \o Insert(x, Tail(s))

\* sorted(...): ascending, duplicates kept.
RECURSIVE Sorted(_)
Sorted(s) == IF s = <<>> THEN <<>> ELSE Insert(s[Len(s)], Sorted(SubSeq(s, 1, Len(s) - 1)))

\* numpy's binary_search_with_guess for xp[1] <= x <= xp[Len(xp)]: the last
\* index j with xp[j] <= x.
LastLe(x, xp) == CHOOSE j \in 1..Len(xp) :
                    /\ RLe(xp[j], x)
                    /\ \A k \in (j + 1)..Len(xp) : RLt(x, xp[k])

\* numpy.interp(x, xp, fp) at one point x (scipy.interp is numpy.interp):
\* clamped outside [xp[1], xp[Len(xp)]], linear between the bracketing points.
Interp1(x, xp, fp) ==
    IF RLt(xp[Len(xp)], x) THEN fp[Len(fp)]
    ELSE IF RLt(x, xp[1]) THEN fp[1]
    ELSE LET j == LastLe(x, xp)
         IN  IF j = Len(xp) THEN fp[j]
             ELSE IF xp[j] = x THEN fp[j]
             ELSE RAdd(RMul(RDiv(RSub(fp[j + 1], fp[j]), RSub(xp[j + 1], xp[j])),
                            RSub(x, xp[j])),
                       fp[j])

\* numpy.interp over an array of points.
Interp(xs, xp, fp) == [k \in 1..Len(xs) |-> Interp1(xs[k], xp, fp)]

\* numpy.trapz(y, x).
RECURSIVE TrapzFrom(_, _, _)
TrapzFrom(x, y, k) ==
    IF k >= Len(x) THEN Zero
    ELSE RAdd(RDiv(RMul(RSub(x[k + 1], x[k]), RAdd(y[k + 1], y[k])), RInt(2)),
              TrapzFrom(x, y, k + 1))

\* sklearn.metrics.auc(x, y) for an ascending x: the trapezoidal area.
Auc(x, y) == TrapzFrom(x, y, 1)

\* ------------------------------------------------------------------------
\* calc_macro_roc, statement by statement
\* ------------------------------------------------------------------------

\* A faulty variant of AllFpr: the domain with duplicates collapsed (a sorted set).
RECURSIVE Dedup(_)
Dedup(s) ==
    IF Len(s) <= 1 THEN s
    ELSE IF s[1] = s[2] THEN Dedup(Tail(s))
    ELSE <<s[1]>> \o Dedup(Tail(s))

AllFprUnique(f) == Dedup(Sorted(Chain(f)))

\* all_fpr = sorted(itertools.chain(*fpr))
AllFpr(f) == Sorted(Chain(f))

\* np.zeros_like(all_fpr)
ZerosLike(a) == [k \in 1..Len(a) |-> Zero]

\* mean_tpr += <array>
AddArr(a, b) == [k \in 1..Len(a) |-> RAdd(a[k], b[k])]

\* mean_tpr / len(tpr)
DivArr(a, n) == [k \in 1..Len(a) |-> RDiv(a[k], RInt(n))]

\* A faulty variant of MacroAuc: the area under the already averaged curve, divided
\* by the fold count once more.
MacroAucTwice(dom, sum, n) == RDiv(Auc(dom, DivArr(sum, n)), RInt(n))

\* auc(all_fpr, mean_tpr) / len(tpr), mean_tpr being the running sum.
MacroAuc(dom, sum, n) == RDiv(Auc(dom, sum), RInt(n))

NoRet == [fpr |-> <<>>, tpr |-> <<>>, auc |-> Zero]

\* Line 96.
BuildDomain ==
    /\ rpc = "domain"
    /\ all_fpr' = AllFpr(fpr)
    /\ mean_tpr' = ZerosLike(AllFpr(fpr))
    /\ i' = 1
    /\ rpc' = "loop"
    /\ UNCHANGED <<fpr, tpr, interps, ret>>
    /\ UNCHANGED pipeVars

\* Lines 100-101, one iteration.
InterpStep ==
    /\ rpc = "loop"
    /\ i <= Len(tpr)
    /\ LET cur == Interp(all_fpr, fpr[i], tpr[i])
       IN  /\ mean_tpr' = AddArr(mean_tpr, cur)
           /\ interps' = Append(interps, cur)
    /\ i' = i + 1
    /\ UNCHANGED <<fpr, tpr, rpc, all_fpr, ret>>
    /\ UNCHANGED pipeVars

\* Line 103.
Return ==
    /\ rpc = "loop"
    /\ i > Len(tpr)
    /\ ret' = [fpr |-> all_fpr,
               tpr |-> DivArr(mean_tpr, Len(tpr)),
               auc |-> MacroAuc(all_fpr, mean_tpr, Len(tpr))]
    /\ rpc' = "done"
    /\ UNCHANGED <<fpr, tpr, all_fpr, mean_tpr, i, interps>>
    /\ UNCHANGED pipeVars

\* ------------------------------------------------------------------------
\* Inputs of calc_macro_roc: ROC curves as roc_curve returns them
\* ------------------------------------------------------------------------

Grid == {R(k, GridDen) : k \in 0..GridDen}

NonDecreasing(s) == \A k \in 1..(Len(s) - 1) : RLe(s[k], s[k + 1])

\* The FPR arrays of n points: non-decreasing from 0 to 1; repeated values
\* (vertical steps) are allowed.
FprArrays(n) ==
    {f \in [1..n -> Grid] : NonDecreasing(f) /\ f[1] = Zero /\ f[n] = One}

\* The TPR arrays of n points: non-decreasing, ending at 1.
TprArrays(n) ==
    {t \in [1..n -> Grid] : NonDecreasing(t) /\ t[n] = One}

\* The arrays of every length, computed once.
FprArraysByLen == [n \in 2..MaxPoints |-> FprArrays(n)]
TprArraysByLen == [n \in 2..MaxPoints |-> TprArrays(n)]

\* The number of points the caller has collected so far.
RECURSIVE Points(_)
Points(ls) == IF ls = <<>> THEN 0 ELSE Len(Head(ls)) + Points(Tail(ls))

\* create_figs, lines 56-61 (and 67-72): the caller starts from empty lists
\* and appends each fold's roc_curve output to fpr and tpr.
AppendCurve ==
    /\ rpc = "collect"
    /\ \E n \in 2..(MaxPoints - Points(fpr)) :
          \E f \in FprArraysByLen[n], t \in TprArraysByLen[n] :
             /\ fpr' = Append(fpr, f)
             /\ tpr' = Append(tpr, t)
    /\ UNCHANGED <<rpc, all_fpr, mean_tpr, i, interps, ret>>
    /\ UNCHANGED pipeVars

\* create_figs, line 62 (and 73): the call calc_macro_roc(fpr, tpr).
CallMacroRoc ==
    /\ rpc = "collect"
    /\ fpr # <<>>
    /\ rpc' = "domain"
    /\ UNCHANGED <<fpr, tpr, all_fpr, mean_tpr, i, interps, ret>>
    /\ UNCHANGED pipeVars

RocStart ==
    /\ fpr = <<>>
    /\ tpr = <<>>
    /\ rpc = "collect"
    /\ all_fpr = <<>>
    /\ mean_tpr = <<>>
    /\ i = 0
    /\ interps = <<>>
    /\ ret = NoRet

NextRoc == AppendCurve \/ CallMacroRoc \/ BuildDomain \/ InterpStep \/ Return

\* ------------------------------------------------------------------------
\* Data of the pipeline
\* ------------------------------------------------------------------------

Models == {"bigram", "lstm"}

\* The orders in which a dict with the keys 'bigram' and 'lstm' may iterate
\* (hash order: fixed within a process, not fixed by the language).
Orders == {<<"bigram", "lstm">>, <<"lstm", "bigram">>}

\* Python's None, and a list of Fold Results, as one shape.
None == [isNone |-> TRUE, folds |-> <<>>]
Some(fs) == [isNone |-> FALSE, folds |-> fs]

\* The Fold Result of fold k of model m over a test set of n samples: the
\* fields indata_test ((label, domain) pairs), y and probs, index-aligned.
\* Every sample differs from its neighbours in every field.
Fold(m, k, n) ==
    [indata_test |-> [j \in 1..n |-> <<10 * k + j, <<"domain", m, k, j>>>>],
     y           |-> [j \in 1..n |-> j % 2],
     probs       |-> [j \in 1..n |-> R(j, j + k)]]

\* bigram.run / lstm.run returning: one Fold Result per fold.
ModelRun(m, nf, n) == [k \in 1..nf |-> Fold(m, k, n)]

\* results = {'bigram': bigram_results, 'lstm': lstm_results}
Dict(b, l) == [bigram |-> b, lstm |-> l]

NoResults == Dict(None, None)

\* The artifact: absent, a complete pickle, or a truncated / partial one.
Absent == [state |-> "absent", data |-> <<>>]
Corrupt == [state |-> "corrupt", data |-> <<>>]
Pickled(d) == [state |-> "ok", data |-> d]

\* pickle.dump of a dict: its items, key then value, in iteration order.
Dump(d, ord) == [k \in 1..Len(ord) |-> <<ord[k], d[ord[k]]>>]

\* pickle.load: the dict rebuilt from the items.
Load(data) ==
    [m \in Models |-> data[CHOOSE k \in 1..Len(data) : data[k][1] = m][2]]

\* os.path.isfile(RESULT_FILE)
IsFile(a) == a.state # "absent"

\* A faulty variant of NeedGenerate: the cache is consulted only by the force flag.
NeedGenerateForceOnly(f, exists) == f

\* Line 42: force or (not os.path.isfile(RESULT_FILE))
NeedGenerate(f, exists) == f \/ ~exists

\* Truth value of a results entry: None and the empty list are false.
Truthy(v) == ~v.isNone /\ v.folds # <<>>

\* File names: RESULT_FILE, and '{0}-{1}-resultset.csv'.format(model, nfold).
CacheFile == <<"results.pkl", 0>>
CsvFile(m, n) == <<m, n>>

\* fieldnames of the DictWriter, written by writeheader().
Header == <<"domain", "real_label", "prob", "real_y">>

\* Lines 115-119: the row of sample j (0-based) of a fold.
Row(fold, j) ==
    [domain     |-> fold.indata_test[j + 1][2],
     real_label |-> fold.indata_test[j + 1][1],
     real_y     |-> fold.y[j + 1],
     prob       |-> fold.probs[j + 1]]

NoCsv == [f \in {} |-> 0]

NoImage == [saved |-> FALSE, curves |-> <<>>]

PipeStart ==
    /\ pc = "idle"
    /\ force = FALSE
    /\ isbigram = TRUE
    /\ islstm = TRUE
    /\ nfolds = 1
    /\ order = <<"bigram", "lstm">>
    /\ bigram_results = None
    /\ lstm_results = None
    /\ results = NoResults
    /\ artifact = Absent
    /\ csv = NoCsv
    /\ openFiles = {}
    /\ resultset = 1
    /\ nfold = 0
    /\ row = 0
    /\ macro = {}
    /\ image = NoImage
    /\ err = "none"
    /\ invoked = <<>>
    /\ runnerInvoked = FALSE
    /\ artifactAtStart = Absent

Init == RocStart /\ PipeStart

\* ------------------------------------------------------------------------
\* create_figs, step by step
\* ------------------------------------------------------------------------

\* Lines 124-125 and 38-42: a process starts, create_figs is called with its
\* arguments and takes the branch of line 42.
CreateFigs ==
    /\ pc = "idle"
    /\ \E f \in BOOLEAN, b \in BOOLEAN, l \in BOOLEAN, nf \in 1..MaxFolds, o \in Orders :
          /\ force' = f
          /\ isbigram' = b
          /\ islstm' = l
          /\ nfolds' = nf
          /\ order' = o
          /\ pc' = IF NeedGenerate(f, IsFile(artifact)) THEN "generate" ELSE "load"
    /\ artifactAtStart' = artifact
    /\ UNCHANGED <<bigram_results, lstm_results, results, artifact, csv, openFiles,
                   resultset, nfold, row, macro, image, err, invoked,
                   runnerInvoked>>
    /\ UNCHANGED rocVars

\* create_figs has returned or raised and the process exits: its locals are
\* gone and the files it left open are closed by the exit.  Of its output only
\* the artifact is read again by a later process.
ProcessExit ==
    /\ pc = "end"
    /\ pc' = "idle"
    /\ force' = FALSE
    /\ isbigram' = TRUE
    /\ islstm' = TRUE
    /\ nfolds' = 1
    /\ order' = <<"bigram", "lstm">>
    /\ bigram_results' = None
    /\ lstm_results' = None
    /\ results' = NoResults
    /\ csv' = NoCsv
    /\ openFiles' = {}
    /\ resultset' = 1
    /\ nfold' = 0
    /\ row' = 0
    /\ macro' = {}
    /\ image' = NoImage
    /\ err' = "none"
    /\ invoked' = <<>>
    /\ runnerInvoked' = FALSE
    /\ artifactAtStart' = artifact
    /\ UNCHANGED artifact
    /\ UNCHANGED rocVars

\* Lines 43 and 22-25: run_experiments is entered.
RunExperiments ==
    /\ pc = "generate"
    /\ runnerInvoked' = TRUE
    /\ bigram_results' = None
    /\ lstm_results' = None
    /\ pc' = "run_bigram"
    /\ UNCHANGED <<force, isbigram, islstm, nfolds, order, results, artifact, csv,
                   openFiles, resultset, nfold, row, macro, image, err, invoked,
                   artifactAtStart>>
    /\ UNCHANGED rocVars

\* Line 27, isbigram false: bigram_results stays None.
BigramSkipped ==
    /\ pc = "run_bigram"
    /\ ~isbigram
    /\ pc' = "run_lstm"
    /\ UNCHANGED <<force, isbigram, islstm, nfolds, order, bigram_results,
                   lstm_results, results, artifact, csv, openFiles, resultset,
                   nfold, row, macro, image, err, invoked, runnerInvoked,
                   artifactAtStart>>
    /\ UNCHANGED rocVars

\* Lines 27-29: bigram.run returns its fold results.
BigramRunReturns ==
    /\ pc = "run_bigram"
    /\ isbigram
    /\ invoked' = Append(invoked, "bigram")
    /\ \E n \in 1..MaxSamples : bigram_results' = Some(ModelRun("bigram", nfolds, n))
    /\ pc' = "run_lstm"
    /\ UNCHANGED <<force, isbigram, islstm, nfolds, order, lstm_results, results,
                   artifact, csv, openFiles, resultset, nfold, row, macro, image,
                   err, runnerInvoked, artifactAtStart>>
    /\ UNCHANGED rocVars

\* A faulty variant of BigramRunFails: the failure is swallowed and the run goes on
\* with the next model.
BigramRunFailsSwallowed ==
    /\ pc = "run_bigram"
    /\ isbigram
    /\ invoked' = Append(invoked, "bigram")
    /\ err' = "training"
    /\ pc' = "run_lstm"
    /\ UNCHANGED <<force, isbigram, islstm, nfolds, order, bigram_results,
                   lstm_results, results, artifact, csv, openFiles, resultset,
                   nfold, row, macro, image, runnerInvoked, artifactAtStart>>
    /\ UNCHANGED rocVars

\* Line 29: bigram.run raises; nothing catches it in run_experiments or in
\* create_figs, so the invocation ends there.
BigramRunFails ==
    /\ pc = "run_bigram"
    /\ isbigram
    /\ invoked' = Append(invoked, "bigram")
    /\ err' = "training"
    /\ pc' = "end"
    /\ UNCHANGED <<force, isbigram, islstm, nfolds, order, bigram_results,
                   lstm_results, results, artifact, csv, openFiles, resultset,
                   nfold, row, macro, image, runnerInvoked, artifactAtStart>>
    /\ UNCHANGED rocVars

\* Lines 31, 35, 43-45, islstm false: lstm_results stays None; the pair is
\* returned and results is built.
LstmSkipped ==
    /\ pc = "run_lstm"
    /\ ~islstm
    /\ results' = Dict(bigram_results, lstm_results)
    /\ pc' = "store"
    /\ UNCHANGED <<force, isbigram, islstm, nfolds, order, bigram_results,
                   lstm_results, artifact, csv, openFiles, resultset, nfold, row,
                   macro, image, err, invoked, runnerInvoked, artifactAtStart>>
    /\ UNCHANGED rocVars

\* Lines 31-35, 43-45: lstm.run returns; the pair is returned and results is
\* built.
LstmRunReturns ==
    /\ pc = "run_lstm"
    /\ islstm
    /\ invoked' = Append(invoked, "lstm")
    /\ \E n \in 1..MaxSamples :
          LET r == Some(ModelRun("lstm", nfolds, n))
          IN  /\ lstm_results' = r
              /\ results' = Dict(bigram_results, r)
    /\ pc' = "store"
    /\ UNCHANGED <<force, isbigram, islstm, nfolds, order, bigram_results,
                   artifact, csv, openFiles, resultset, nfold, row, macro, image,
                   err, runnerInvoked, artifactAtStart>>
    /\ UNCHANGED rocVars

\* Line 33: lstm.run raises.
LstmRunFails ==
    /\ pc = "run_lstm"
    /\ islstm
    /\ invoked' = Append(invoked, "lstm")
    /\ err' = "training"
    /\ pc' = "end"
    /\ UNCHANGED <<force, isbigram, islstm, nfolds, order, bigram_results,
                   lstm_results, results, artifact, csv, openFiles, resultset,
                   nfold, row, macro, image, runnerInvoked, artifactAtStart>>
    /\ UNCHANGED rocVars

\* Line 47: pickle.dump(results, open(RESULT_FILE, 'w')) completes.  The file
\* object is never closed by the code: it is closed when it is finalised,
\* which reference counting does at once and other collectors do later.
StoreResults ==
    /\ pc = "store"
    /\ artifact' = Pickled(Dump(results, order))
    /\ \E leftOpen \in BOOLEAN :
          openFiles' = IF leftOpen THEN openFiles \cup {CacheFile} ELSE openFiles
    /\ resultset' = 1
    /\ pc' = "csv_dict"
    /\ UNCHANGED <<force, isbigram, islstm, nfolds, order, bigram_results,
                   lstm_results, results, csv, nfold, row, macro, image, err,
                   invoked, runnerInvoked, artifactAtStart>>
    /\ UNCHANGED rocVars

\* Line 47: open(RESULT_FILE, 'w') has truncated the file and the dump raises
\* (an I/O error): the artifact is left partial and the file object, held by
\* the traceback, open.
StoreResultsFails ==
    /\ pc = "store"
    /\ artifact' = Corrupt
    /\ openFiles' = openFiles \cup {CacheFile}
    /\ err' = "io"
    /\ pc' = "end"
    /\ UNCHANGED <<force, isbigram, islstm, nfolds, order, bigram_results,
                   lstm_results, results, csv, resultset, nfold, row, macro,
                   image, invoked, runnerInvoked, artifactAtStart>>
    /\ UNCHANGED rocVars

\* Line 49: results = pickle.load(open(RESULT_FILE)).  open raises IOError for
\* a missing file, pickle.load raises for a partial one.
LoadResults ==
    /\ pc = "load"
    /\ results' = IF artifact.state = "ok" THEN Load(artifact.data) ELSE results
    /\ err' = IF artifact.state = "ok" THEN "none"
              ELSE IF artifact.state = "absent" THEN "IOError" ELSE "unpickle"
    /\ pc' = IF artifact.state = "ok" THEN "csv_dict" ELSE "end"
    /\ resultset' = 1
    /\ UNCHANGED <<force, isbigram, islstm, nfolds, order, bigram_results,
                   lstm_results, artifact, csv, openFiles, nfold, row, macro,
                   image, invoked, runnerInvoked, artifactAtStart>>
    /\ UNCHANGED rocVars

\* ------------------------------------------------------------------------
\* write_results_to_csv, step by step
\* ------------------------------------------------------------------------

\* Line 107-108: the next key of the dict, whose entry is a list.
CsvEnterModel ==
    /\ pc = "csv_dict"
    /\ resultset <= Len(order)
    /\ ~results[order[resultset]].isNone
    /\ nfold' = 0
    /\ pc' = "csv_fold"
    /\ UNCHANGED <<force, isbigram, islstm, nfolds, order, bigram_results,
                   lstm_results, results, artifact, csv, openFiles, resultset,
                   row, macro, image, err, invoked, runnerInvoked,
                   artifactAtStart>>
    /\ UNCHANGED rocVars

\* Line 108: the next key of the dict, whose entry is None: len(None) raises
\* TypeError.
CsvLenOfNone ==
    /\ pc = "csv_dict"
    /\ resultset <= Len(order)
    /\ results[order[resultset]].isNone
    /\ err' = "TypeError"
    /\ pc' = "end"
    /\ UNCHANGED <<force, isbigram, islstm, nfolds, order, bigram_results,
                   lstm_results, results, artifact, csv, openFiles, resultset,
                   nfold, row, macro, image, invoked, runnerInvoked,
                   artifactAtStart>>
    /\ UNCHANGED rocVars

\* Line 107: the dict is exhausted; write_results_to_csv returns.
CsvReturn ==
    /\ pc = "csv_dict"
    /\ resultset > Len(order)
    /\ pc' = "roc"
    /\ UNCHANGED <<force, isbigram, islstm, nfolds, order, bigram_results,
                   lstm_results, results, artifact, csv, openFiles, resultset,
                   nfold, row, macro, image, err, invoked, runnerInvoked,
                   artifactAtStart>>
    /\ UNCHANGED rocVars

\* Lines 109-112: the file of the next fold is opened (created or truncated)
\* and the header written.
CsvOpenFile ==
    /\ pc = "csv_fold"
    /\ nfold < Len(results[order[resultset]].folds)
    /\ csv' = (CsvFile(order[resultset], nfold) :> [header |-> Header, rows |-> <<>>]) @@ csv
    /\ openFiles' = openFiles \cup {CsvFile(order[resultset], nfold)}
    /\ row' = 0
    /\ pc' = "csv_row"
    /\ UNCHANGED <<force, isbigram, islstm, nfolds, order, bigram_results,
                   lstm_results, results, artifact, resultset, nfold, macro,
                   image, err, invoked, runnerInvoked, artifactAtStart>>
    /\ UNCHANGED rocVars

\* Line 108: the folds of this model are exhausted.
CsvModelDone ==
    /\ pc = "csv_fold"
    /\ nfold >= Len(results[order[resultset]].folds)
    /\ resultset' = resultset + 1
    /\ pc' = "csv_dict"
    /\ UNCHANGED <<force, isbigram, islstm, nfolds, order, bigram_results,
                   lstm_results, results, artifact, csv, openFiles, nfold, row,
                   macro, image, err, invoked, runnerInvoked, artifactAtStart>>
    /\ UNCHANGED rocVars

\* Lines 113-120: the row of the next sample is written.
CsvWriteRow ==
    /\ pc = "csv_row"
    /\ LET m == order[resultset]
           fold == results[m].folds[nfold + 1]
           name == CsvFile(m, nfold)
       IN  /\ row < Len(fold.indata_test)
           /\ csv' = [csv EXCEPT ![name].rows = Append(@, Row(fold, row))]
    /\ row' = row + 1
    /\ UNCHANGED <<pc, force, isbigram, islstm, nfolds, order, bigram_results,
                   lstm_results, results, artifact, openFiles, resultset, nfold,
                   macro, image, err, invoked, runnerInvoked, artifactAtStart>>
    /\ UNCHANGED rocVars

\* Line 120: writerow raises (an I/O error); line 121 is not reached.
CsvWriteRowFails ==
    /\ pc = "csv_row"
    /\ row < Len(results[order[resultset]].folds[nfold + 1].indata_test)
    /\ err' = "io"
    /\ pc' = "end"
    /\ UNCHANGED <<force, isbigram, islstm, nfolds, order, bigram_results,
                   lstm_results, results, artifact, csv, openFiles, resultset,
                   nfold, row, macro, image, invoked, runnerInvoked,
                   artifactAtStart>>
    /\ UNCHANGED rocVars

\* Line 121: csv_file.close(), after the last row.
CsvCloseFile ==
    /\ pc = "csv_row"
    /\ row >= Len(results[order[resultset]].folds[nfold + 1].indata_test)
    /\ openFiles' = openFiles \ {CsvFile(order[resultset], nfold)}
    /\ nfold' = nfold + 1
    /\ pc' = "csv_fold"
    /\ UNCHANGED <<force, isbigram, islstm, nfolds, order, bigram_results,
                   lstm_results, results, artifact, csv, resultset, row, macro,
                   image, err, invoked, runnerInvoked, artifactAtStart>>
    /\ UNCHANGED rocVars

\* ------------------------------------------------------------------------
\* The ROC stage and the figure
\* ------------------------------------------------------------------------

\* Lines 54-73: for each model whose entry is true, the fold curves are
\* collected and calc_macro_roc binds the model's macro curve and AUC.
MacroRocStage ==
    /\ pc = "roc"
    /\ macro' = {m \in Models : Truthy(results[m])}
    /\ pc' = "render"
    /\ UNCHANGED <<force, isbigram, islstm, nfolds, order, bigram_results,
                   lstm_results, results, artifact, csv, openFiles, resultset,
                   nfold, row, image, err, invoked, runnerInvoked,
                   artifactAtStart>>
    /\ UNCHANGED rocVars

\* Lines 76-90: both curves are plotted, lstm first, and the figure saved;
\* reading the locals of a model that was skipped raises UnboundLocalError
\* before anything is saved.
SaveFigure ==
    /\ pc = "render"
    /\ image' = IF Models \subseteq macro
                THEN [saved |-> TRUE, curves |-> <<"lstm", "bigram">>]
                ELSE image
    /\ err' = IF Models \subseteq macro THEN "none" ELSE "UnboundLocalError"
    /\ pc' = "end"
    /\ UNCHANGED <<force, isbigram, islstm, nfolds, order, bigram_results,
                   lstm_results, results, artifact, csv, openFiles, resultset,
                   nfold, row, macro, invoked, runnerInvoked, artifactAtStart>>
    /\ UNCHANGED rocVars

Next ==
    \/ CreateFigs
    \/ ProcessExit
    \/ RunExperiments
    \/ BigramSkipped
    \/ BigramRunReturns
    \/ BigramRunFails
    \/ LstmSkipped
    \/ LstmRunReturns
    \/ LstmRunFails
    \/ StoreResults
    \/ StoreResultsFails
    \/ LoadResults
    \/ CsvEnterModel
    \/ CsvLenOfNone
    \/ CsvReturn
    \/ CsvOpenFile
    \/ CsvModelDone
    \/ CsvWriteRow
    \/ CsvWriteRowFails
    \/ CsvCloseFile
    \/ MacroRocStage
    \/ SaveFigure

Spec == Init /\ [][Next]_vars

SpecRoc == Init /\ [][NextRoc]_vars

\* ------------------------------------------------------------------------
\* Properties of the pipeline (checked under Spec)
\* ------------------------------------------------------------------------

\* The stages after results is bound: the CSV dump, the ROC stage, the figure.
Downstream == {"csv_dict", "csv_fold", "csv_row", "roc", "render"}

\* The CSV files of model m written by this invocation.
CsvFilesOf(m) == {f \in DOMAIN csv : f[1] = m}

\* C1: a run whose Combined Results hold the bigram model and None for lstm
\* (and that no I/O error cut short) completes without an error, with a figure
\* of exactly one curve and no CSV file for lstm.
C1_DisabledModelSkipped ==
    (pc = "end" /\ ~results.bigram.isNone /\ results.lstm.isNone /\ err # "io") =>
        /\ err = "none"
        /\ image.saved
        /\ Len(image.curves) = 1
        /\ CsvFilesOf("lstm") = {}

\* C2: run_experiments is invoked exactly when force is set or the artifact
\* did not exist when create_figs began; models run only through it; once it
\* has returned and the results are stored, the artifact loads back to them;
\* on a cache hit the artifact is untouched, no model runs, a missing artifact
\* is never opened, and the results used downstream are those loaded from the
\* artifact whatever the toggles and the fold count are.
C2_CacheDecision ==
    (pc \notin {"idle", "generate"}) =>
        /\ runnerInvoked <=> (force \/ ~IsFile(artifactAtStart))
        /\ invoked # <<>> => runnerInvoked
        /\ (runnerInvoked /\ pc \in Downstream) =>
              /\ artifact.state = "ok"
              /\ Load(artifact.data) = results
              /\ results = Dict(bigram_results, lstm_results)
        /\ ~runnerInvoked =>
              /\ err # "IOError"
              /\ invoked = <<>>
              /\ artifact = artifactAtStart
              /\ pc \in Downstream => results = Load(artifactAtStart.data)

\* A cache hit that reaches the figure with the bigram toggle off and bigram
\* results loaded from the artifact.
C2_Witness ==
    /\ pc = "render"
    /\ ~runnerInvoked
    /\ ~force
    /\ ~isbigram
    /\ nfolds = 1
    /\ ~results.bigram.isNone
    /\ Len(results.bigram.folds) = 2
    /\ results = Load(artifact.data)

\* The rows a Fold Result must produce: row j from index j of every field.
ExpectedRows(fold) ==
    [j \in 1..Len(fold.indata_test) |->
        [domain     |-> fold.indata_test[j][2],
         real_label |-> fold.indata_test[j][1],
         prob       |-> fold.probs[j],
         real_y     |-> fold.y[j]]]

\* write_results_to_csv is over: it returned, or raised something other than
\* an I/O error.
CsvStageOver ==
    \/ pc \in {"roc", "render"}
    \/ pc = "end" /\ err \in {"none", "TypeError", "UnboundLocalError"}

\* C7: once write_results_to_csv is over, every present model has, for every
\* fold index n, exactly the file (model, n), holding the header and one row
\* per test sample in order, row j taken from index j of the fold.
C7_OneCsvPerPresentFold ==
    CsvStageOver =>
        \A m \in Models :
            ~results[m].isNone =>
                /\ CsvFilesOf(m) = {CsvFile(m, n) : n \in 0..(Len(results[m].folds) - 1)}
                /\ \A n \in 0..(Len(results[m].folds) - 1) :
                      /\ csv[CsvFile(m, n)].header = Header
                      /\ csv[CsvFile(m, n)].rows = ExpectedRows(results[m].folds[n + 1])

\* C8: at most one output file is open at any time, and none is left open
\* when create_figs ends, by return or by an error.
C8_OutputFilesClosed ==
    /\ Cardinality(openFiles) <= 1
    /\ pc = "end" => openFiles = {}

\* C9: when a model's training run fails the invocation is over: the failed
\* model was the last one invoked and none was invoked twice, no results
\* exist, the artifact is what it was when the invocation began, and no CSV
\* file and no image was written.
C9_TrainingFailureIsFatal ==
    err = "training" =>
        /\ pc = "end"
        /\ invoked \in {<<"bigram">>, <<"lstm">>, <<"bigram", "lstm">>}
        /\ results = NoResults
        /\ artifact = artifactAtStart
        /\ DOMAIN csv = {}
        /\ ~image.saved

\* A forced run over an existing artifact whose bigram run fails with the
\* lstm model enabled and not yet run.
C9_Witness ==
    /\ err = "training"
    /\ force
    /\ islstm
    /\ invoked = <<"bigram">>
    /\ artifactAtStart.state = "ok"
    /\ artifact = artifactAtStart

\* ------------------------------------------------------------------------
\* Properties of calc_macro_roc (checked under SpecRoc)
\* ------------------------------------------------------------------------

Returned == rpc = "done"

Range(s) == {s[k] : k \in 1..Len(s)}

Count(v, s) == Cardinality({k \in 1..Len(s) : s[k] = v})

\* The values of all the input curves' FPR arrays.
InputFprValues == UNION {Range(fpr[c]) : c \in 1..Len(fpr)}

StrictlyIncreasing(s) == \A k \in 1..(Len(s) - 1) : RLt(s[k], s[k + 1])

\* The trapezoidal area under input curve c, on its own points.
OwnAuc(c) == TrapzFrom(fpr[c], tpr[c], 1)

\* C3: a single curve, repeated FPR values included, is returned unchanged
\* (same FPR array, same TPR array) with the trapezoidal AUC of its own points.
C3_SingleCurveIdentity ==
    (Returned /\ Len(fpr) = 1) =>
        /\ ret.fpr = fpr[1]
        /\ ret.tpr = tpr[1]
        /\ ret.auc = OwnAuc(1)

\* C4 as claimed: the returned domain is the ascending union of the input FPR
\* values with duplicates collapsed, as long as the number of distinct values.
C4_DomainIsSortedUnion ==
    Returned =>
        /\ StrictlyIncreasing(ret.fpr)
        /\ Range(ret.fpr) = InputFprValues
        /\ Len(ret.fpr) = Cardinality(InputFprValues)

\* C4 as amended: the returned domain is the ascending concatenation of the
\* input FPR arrays with duplicates kept: it is non-decreasing, as long as the
\* total number of input points, and holds each value as often as the inputs do.
C4_DomainIsSortedConcatenation ==
    Returned =>
        /\ NonDecreasing(ret.fpr)
        /\ Len(ret.fpr) = Points(fpr)
        /\ Range(ret.fpr) = InputFprValues
        /\ \A v \in InputFprValues :
              Count(v, ret.fpr) = Points([c \in 1..Len(fpr) |->
                                            SelectSeq(fpr[c], LAMBDA x : x = v)])

\* The scenario of the spec: folds FPR = [0, 1/2, 1] and FPR = [0, 1]; the
\* domain returned keeps the repeated 0 and 1.
C4_Witness ==
    /\ Returned
    /\ fpr = <<(<<Zero, R(1, 2), One>>), (<<Zero, One>>)>>
    /\ ret.fpr = <<Zero, Zero, R(1, 2), One, One>>

\* C5: the interpolation of curve c onto the shared domain, at every domain
\* entry equal to one of the curve's own FPR points, is that point's TPR,
\* vertical steps included.
C5_NoDistortionAtKnownPoints ==
    Returned =>
        \A c \in 1..Len(fpr) : \A k \in 1..Len(fpr[c]) : \A j \in 1..Len(all_fpr) :
            all_fpr[j] = fpr[c][k] => interps[c][j] = tpr[c][k]

\* The curve (xp, fp) at x approached from the left: at a repeated FPR value
\* the first of its points, elsewhere the linear interpolation.
FirstGe(x, xp) == CHOOSE j \in 1..Len(xp) :
                     /\ RLe(x, xp[j])
                     /\ \A k \in 1..(j - 1) : RLt(xp[k], x)

LowerAt(x, xp, fp) ==
    IF RLt(xp[Len(xp)], x) THEN fp[Len(fp)]
    ELSE IF RLt(x, xp[1]) THEN fp[1]
    ELSE LET j == FirstGe(x, xp)
         IN  IF xp[j] = x THEN fp[j]
             ELSE RAdd(RMul(RDiv(RSub(fp[j], fp[j - 1]), RSub(xp[j], xp[j - 1])),
                            RSub(x, xp[j - 1])),
                       fp[j - 1])

\* The curve at x approached from the right: the last of its points there.
UpperAt(x, xp, fp) == Interp1(x, xp, fp)

\* Input curve a dominates input curve b pointwise: at every FPR value of
\* either curve, a is at least b both below and above any vertical step.
Dominates(a, b) ==
    \A x \in Range(fpr[a]) \cup Range(fpr[b]) :
        /\ RLe(LowerAt(x, fpr[b], tpr[b]), LowerAt(x, fpr[a], tpr[a]))
        /\ RLe(UpperAt(x, fpr[b], tpr[b]), UpperAt(x, fpr[a], tpr[a]))

RMin(a, b) == IF RLe(a, b) THEN a ELSE b
RMax(a, b) == IF RLe(a, b) THEN b ELSE a

\* C6: for two input curves one of which dominates the other, the macro AUC
\* lies between the two curves' own trapezoidal AUCs.
C6_MacroAucWithinInputAucs ==
    (Returned /\ Len(fpr) = 2 /\ (Dominates(1, 2) \/ Dominates(2, 1))) =>
        /\ RLe(RMin(OwnAuc(1), OwnAuc(2)), ret.auc)
        /\ RLe(ret.auc, RMax(OwnAuc(1), OwnAuc(2)))

\* The sum over the input curves of their interpolations at x.
RECURSIVE InterpSum(_, _)
InterpSum(x, c) ==
    IF c = 0 THEN Zero ELSE RAdd(Interp1(x, fpr[c], tpr[c]), InterpSum(x, c - 1))

\* C10: the returned TPR array is as long as the returned domain and is the
\* pointwise sum of the interpolated curves divided by the number of curves,
\* and the returned AUC is the trapezoidal area under exactly that curve.
C10_ReturnedValuesConsistent ==
    Returned =>
        /\ Len(ret.tpr) = Len(ret.fpr)
        /\ \A j \in 1..Len(ret.fpr) :
              ret.tpr[j] = RDiv(InterpSum(ret.fpr[j], Len(fpr)), RInt(Len(fpr)))
        /\ ret.auc = TrapzFrom(ret.fpr, ret.tpr, 1)

\* The scenario of the spec: a perfect fold and a random fold average to an
\* AUC of 3/4.
C10_Witness ==
    /\ Returned
    /\ fpr = <<(<<Zero, Zero, One>>), (<<Zero, One>>)>>
    /\ tpr = <<(<<Zero, One, One>>), (<<Zero, One>>)>>
    /\ ret.auc = R(3, 4)

====
